---- MODULE Spec2Model ----
(***************************************************************************)
(* Model of src/src/utils/latex.ts: the two variants of compileLatex.      *)
(*   variant 1 (lines 46-175):  fixed '.latex-workflow/<name>' staging      *)
(*                              directory, process.chdir into it.           *)
(*   variant 2 (lines 228-338): tmp-promise staging directory, subprocess   *)
(*                              cwd option, copyTempFilesToOutdir.          *)
(* One build is one run of the async function; every action is the code    *)
(* between two suspension points (awaits).  File names are sequences of    *)
(* tokens, "." being the dot, so that path.parse(..).ext is computed.      *)
(***************************************************************************)
EXTENDS Integers, Sequences, FiniteSets, TLC

(* ---------------------------------------------------------------- bounds *)
\* at most this many entries besides the document in the source listing
MaxExtra == 2
\* at most this many entries in the ignore list
MaxIgnore == 1

(* ------------------------------------------------------------ file names *)
Dot == "."
TexExt == <<Dot, "tex">>
JtexExt == <<Dot, "jtex">>

\* latexFilePath of the request (base name) and what the code derives from it
filenameWithExt == <<"doc", Dot, "tex">>
filename == SubSeq(filenameWithExt, 1, Len(filenameWithExt) - Len(TexExt))

PytxcodeName == filename \o <<Dot, "pytxcode">>
BcfName == filename \o <<Dot, "bcf">>
PythontexDirName == <<"pythontex-files-">> \o filename
PdfName == filename \o <<Dot, "pdf">>

FigName == <<"fig", Dot, "png">>
DotTexName == <<Dot, "tex">>
OutPlainName == <<"out">>
OutTexName == <<"out", Dot, "tex">>
OldAuxName == <<"old", Dot, "aux">>

\* entries the source directory may hold besides the document
SourceExtras == {FigName, DotTexName, OutPlainName, OutTexName, PytxcodeName}
\* base names the output directory may have
OutBaseNames == {OutPlainName, OutTexName}
\* names the ignore list may hold
IgnoreNames == {FigName, OutTexName}
\* the source listings of the full builds: an asset, with or without a
\* code-execution marker left in the source tree by an earlier build
BuildExtras == {{FigName}, {FigName, PytxcodeName}}
\* entries the output directory may hold before the build
OldOutNames == {OldAuxName, PdfName}

\* index of the last "." of a name, 0 when there is none
LastDot(n) ==
    IF \E i \in 1..Len(n) : n[i] = Dot
    THEN CHOOSE i \in 1..Len(n) : n[i] = Dot /\ \A j \in (i+1)..Len(n) : n[j] # Dot
    ELSE 0

\* path.parse(entryName).ext : from the last dot to the end; empty when there
\* is no dot, when the dot starts the name, or when the name is ".."
PathExt(n) ==
    LET d == LastDot(n)
    IN IF d = 0 \/ d = 1 \/ n = <<Dot, Dot>> THEN <<>> ELSE SubSeq(n, d, Len(n))

(* ----------------------------------------------------------------- state *)
VARIABLES
    variant,            \* 1 or 2: which compileLatex is running
    pc,                 \* position of the build in compileLatex
    cwd,                \* process.cwd(): "src" (workingDir), "other", "stage"
    oldCwd,             \* variant 1: const oldCwd
    srcDir,             \* names present in workingDir
    otherDir,           \* names present in the caller's directory when it is not workingDir
    ignoreDirectories,  \* request: ignoreDirectories
    outBase,            \* path.basename(outputDirectory)
    workingDirEntries,  \* result of readdir(workingDir)
    toSymlink,          \* workingDirEntriesToSymlink
    toCopy,             \* workingDirEntriesToCopy
    mirrorOps,          \* the ln / cp invocations made, with their arguments
    stagingExists,      \* tempDir exists
    staging,            \* tempDir: name -> kind ("link", "copy", "file")
    outExists,          \* outputDirectory exists
    outDir,             \* outputDirectory: name -> content ("old", "new", "src")
    out0,               \* outputDirectory contents when the call started
    trace,              \* tool invocations and marker checks, in order
    afterPass,          \* names in tempDir after each successful engine pass
    entriesToCopy,      \* entriesToCopy of the publication being prepared
    pending,            \* copies of a Promise.all batch still in flight
    batch,              \* the batch being awaited: "none", "publish", "recover"
    error,              \* the exception in flight
    firstError,         \* the first exception of the call
    cause,              \* the rejection or exit that made the call fail first
    outcome,            \* what the caller observes
    \* two calls of compileLatex in flight in one process
    cPc,                \* position of each call
    cDoc,               \* filenamify(filename) of each call's document
    cTemp,              \* tempDir of each call
    cOld,               \* variant 1: oldCwd of each call
    cFresh,             \* tempDir did not exist when the call acquired it
    procCwd,            \* process.cwd(), one per process
    dirs,               \* the directories that exist: path -> entries
    cOps,               \* tool runs and relative-path operations, with their directory
    cTmpCount           \* directories tmp-promise has handed out

cvars == <<cPc, cDoc, cTemp, cOld, cFresh, procCwd, dirs, cOps, cTmpCount>>

vars == <<cvars, variant, pc, cwd, oldCwd, srcDir, otherDir, ignoreDirectories, outBase,
          workingDirEntries, toSymlink, toCopy, mirrorOps, stagingExists, staging,
          outExists, outDir, out0, trace, afterPass, entriesToCopy, pending, batch, error,
          firstError, cause, outcome>>

NoError == [cls |-> "none", msg |-> <<>>]
EmptyDir == [n \in {} |-> "none"]

\* an error thrown by a node:fs call
FsError(op) == [cls |-> "FsError", msg |-> <<op>>]
\* the error execa rejects with when a subprocess exits non-zero
ExecaError(tool, status) == [cls |-> "ExecaError", msg |-> <<tool, status>>]
\* class LatexError: keeps only the message
LatexError(message) == [cls |-> "LatexError", msg |-> message]
\* runLatex: any rejection of the subprocess is rethrown as LatexError(error.message)
RunLatexError(e) == LatexError(e.msg)

(* ------------------------------------------------------ pure computations *)
\* the symlink filter without its extension test
EntriesToSymlink_NoExtTest(entries, ignore, ob) ==
    {e \in entries : e \notin ignore /\ e # ob}

\* workingDirEntriesToSymlink: not ignored, extension not '.tex', not the
\* output directory's base name
EntriesToSymlink(entries, ignore, ob) ==
    {e \in entries : e \notin ignore /\ PathExt(e) # TexExt /\ e # ob}

\* workingDirEntriesToCopy: not ignored, extension '.tex'
EntriesToCopy(entries, ignore, ob) ==
    {e \in entries : e \notin ignore /\ PathExt(e) = TexExt}

\* entriesToCopy of a publication: '.tex' never belongs in the output
\* directory; copyTempFilesToOutdir (variant 2) also drops '.jtex'
PublishFilter(v, names) ==
    {n \in names : PathExt(n) # TexExt /\ (v = 2 => PathExt(n) # JtexExt)}

\* the force option of fs.promises.cp in the failure path: variant 1 passes
\* { recursive: true } only, and force defaults to true; variant 2 passes
\* force: false
RecoverForce(v) == v = 1

\* the directory a relative path is resolved against
DirOf(c, src, other, stg) ==
    IF c = "stage" THEN DOMAIN stg ELSE IF c = "src" THEN src ELSE other

\* fs.existsSync(`${tempDir}/${name}`): follows a symbolic link to its target
ExistsSync(name, stg, src) ==
    name \in DOMAIN stg /\ (stg[name] = "link" => name \in src)

\* a subprocess running in tempDir writes the files in arts: a new name
\* becomes a regular file, an existing entry keeps its kind (a write to a
\* symbolic link goes through to the linked source file)
WriteFiles(stg, arts) ==
    [n \in DOMAIN stg \cup arts |-> IF n \in DOMAIN stg THEN stg[n] ELSE "file"]

WrittenThrough(stg, arts) == {n \in arts : n \in DOMAIN stg /\ stg[n] = "link"}

\* ln -s / cp placing the entries in placed into tempDir
PlaceEntries(stg, placed, kind) ==
    [n \in DOMAIN stg \cup placed |-> IF n \in placed THEN kind ELSE stg[n]]

RemoveEntries(stg, names) == [n \in DOMAIN stg \ names |-> stg[n]]

\* what one engine pass may leave in tempDir when it exits 0
EngineOutputs == {{PdfName} \cup s : s \in SUBSET {PytxcodeName, BcfName}}
\* ... and when it exits non-zero
EngineFailOutputs == {{}, {PdfName}}

\* exit statuses of the bibliography tool: "nocite" is the status that only
\* says that no citations were found
BiberFailStatuses == {"nocite", "error"}

(* ------------------------------------------------------------- exceptions *)
\* a try block that runs a failed engine pass again
ThrowInTry_Retry(e, raw) ==
    /\ error' = e
    /\ firstError' = IF firstError = NoError THEN e ELSE firstError
    /\ cause' = IF firstError = NoError THEN raw ELSE cause
    /\ pc' = IF pc \in {"engine1", "engine2", "engine3"} THEN pc ELSE "catch"

\* a throw inside the try block: control goes to the catch clause
ThrowInTry(e, raw) ==
    /\ error' = e
    /\ firstError' = IF firstError = NoError THEN e ELSE firstError
    /\ cause' = IF firstError = NoError THEN raw ELSE cause
    /\ pc' = "catch"

\* a rejected node:fs call or a rejected execa call awaited directly
ThrowRaw(e) == ThrowInTry(e, e)

\* a rejected subprocess awaited inside runLatex
ThrowTool(raw) == ThrowInTry(RunLatexError(raw), raw)

\* a throw inside the catch clause: the new exception replaces the one in
\* flight and control goes to the finally clause
ThrowInCatch(e) ==
    /\ error' = e
    /\ UNCHANGED <<firstError, cause>>
    /\ pc' = "finally"

(* -------------------------------------------- two calls in one process *)
Builds == {1, 2}
DocNames == {"doc", "paper"}
TmpNames == <<"t1", "t2">>

NoPath == <<>>
\* the directory the process is in when the calls are made
CallerPath == <<"cwd">>
\* variant 1, lines 58-59: path.resolve(workingDir/../.latex-workflow, filenamify(filename))
StagePath(doc) == <<".latex-workflow", doc>>
\* variant 2, line 238: the k-th directory made by dir()
TmpPath(k) == <<"tmp", TmpNames[k]>>

DirPut(d, path, entries) ==
    [q \in DOMAIN d \cup {path} |-> IF q = path THEN entries ELSE d[q]]

DirDrop(d, path) == [q \in DOMAIN d \ {path} |-> d[q]]

\* a write of build b into the directory at path, if it exists
DirAdd(d, path, b, what) ==
    IF path \in DOMAIN d
    THEN DirPut(d, path, d[path] \cup {[by |-> b, what |-> what]})
    ELSE d

\* no call has been made yet; the documents are drawn from docs
ConcStart(docs) ==
    /\ cPc = [b \in Builds |-> "idle"]
    /\ cDoc \in docs
    /\ cTemp = [b \in Builds |-> NoPath]
    /\ cOld = [b \in Builds |-> NoPath]
    /\ cFresh = [b \in Builds |-> TRUE]
    /\ procCwd = CallerPath
    /\ dirs = [q \in {CallerPath} |-> {}]
    /\ cOps = {}
    /\ cTmpCount = 0

(* ----------------------------------------------------------------- Init *)
\* the state when compileLatex is called, the request and the directories
\* drawn from the given sets
InitFrom(extras, ignores, outBases, cwds, olds, leftovers) ==
    /\ variant \in {1, 2}
    /\ pc = "acquire"
    /\ cwd \in cwds
    /\ oldCwd = cwd
    /\ \E extra \in extras : srcDir = {filenameWithExt} \cup extra
    /\ otherDir = {}
    /\ ignoreDirectories \in ignores
    /\ outBase \in outBases
    /\ workingDirEntries = {}
    /\ toSymlink = {}
    /\ toCopy = {}
    /\ mirrorOps = <<>>
    \* variant 1 reuses '.latex-workflow/<name>', which an earlier build of
    \* the same document may have left behind
    /\ stagingExists \in (IF variant = 1 THEN leftovers ELSE {FALSE})
    /\ staging = IF stagingExists THEN [n \in {PdfName} |-> "file"] ELSE EmptyDir
    /\ \E old \in olds : outDir = [n \in old |-> "old"]
    /\ outExists = (DOMAIN outDir # {})
    /\ out0 = outDir
    /\ trace = <<>>
    /\ afterPass = <<>>
    /\ entriesToCopy = {}
    /\ pending = {}
    /\ batch = "none"
    /\ error = NoError
    /\ firstError = NoError
    /\ cause = NoError
    /\ outcome = [kind |-> "running", err |-> NoError]

\* full builds
Init ==
    /\ InitFrom(BuildExtras, {{}}, {OutPlainName}, {"src", "other"}, {{}, OldOutNames}, BOOLEAN)
    /\ ConcStart({[b \in Builds |-> "doc"]})

\* builds over every small source listing, ignore list and output name
MirrorInit ==
    /\ InitFrom({e \in SUBSET SourceExtras : Cardinality(e) <= MaxExtra},
                {i \in SUBSET IgnoreNames : Cardinality(i) <= MaxIgnore},
                OutBaseNames, {"other"}, {{}}, {FALSE})
    /\ ConcStart({[b \in Builds |-> "doc"]})

\* two calls of the same variant, for documents with equal or different names
ConcInit ==
    /\ InitFrom({{FigName}}, {{}}, {OutPlainName}, {"other"}, {{}}, {FALSE})
    /\ ConcStart([Builds -> DocNames])

(* --------------------------------------------------- staging acquisition *)
\* variant 1, line 62: rm(tempDir, {force, recursive}); variant 2, line 238:
\* dir({unsafeCleanup: true}) makes a fresh empty directory
AcquireOk ==
    /\ pc = "acquire"
    /\ IF variant = 1
       THEN /\ stagingExists' = FALSE
            /\ staging' = EmptyDir
            /\ pc' = "mkdir"
       ELSE /\ stagingExists' = TRUE
            /\ staging' = EmptyDir
            /\ pc' = "readdir"
    /\ UNCHANGED <<cvars, variant, cwd, oldCwd, srcDir, otherDir, ignoreDirectories, outBase,
                   workingDirEntries, toSymlink, toCopy, mirrorOps, outExists, outDir,
                   out0, trace, afterPass, entriesToCopy, pending, batch, error,
                   firstError, cause, outcome>>

\* variant 1: the rm is inside the try block; variant 2: dir() is called
\* before the try block, its rejection reaches the caller directly
AcquireFail ==
    /\ pc = "acquire"
    /\ IF variant = 1
       THEN /\ ThrowRaw(FsError("rm tempDir"))
            /\ UNCHANGED outcome
       ELSE /\ pc' = "done"
            /\ error' = FsError("dir")
            /\ firstError' = FsError("dir")
            /\ cause' = FsError("dir")
            /\ outcome' = [kind |-> "thrown", err |-> FsError("dir")]
    /\ UNCHANGED <<cvars, variant, cwd, oldCwd, srcDir, otherDir, ignoreDirectories, outBase,
                   workingDirEntries, toSymlink, toCopy, mirrorOps, stagingExists,
                   staging, outExists, outDir, out0, trace, afterPass, entriesToCopy,
                   pending, batch>>

\* variant 1, line 63: mkdir(tempDir, {recursive})
MkdirStageOk ==
    /\ pc = "mkdir"
    /\ stagingExists' = TRUE
    /\ staging' = EmptyDir
    /\ pc' = "readdir"
    /\ UNCHANGED <<cvars, variant, cwd, oldCwd, srcDir, otherDir, ignoreDirectories, outBase,
                   workingDirEntries, toSymlink, toCopy, mirrorOps, outExists, outDir,
                   out0, trace, afterPass, entriesToCopy, pending, batch, error,
                   firstError, cause, outcome>>

MkdirStageFail ==
    /\ pc = "mkdir"
    /\ ThrowRaw(FsError("mkdir tempDir"))
    /\ UNCHANGED <<cvars, variant, cwd, oldCwd, srcDir, otherDir, ignoreDirectories, outBase,
                   workingDirEntries, toSymlink, toCopy, mirrorOps, stagingExists,
                   staging, outExists, outDir, out0, trace, afterPass, entriesToCopy,
                   pending, batch, outcome>>

(* --------------------------------------------------------------- mirror *)
\* readdir(workingDir) and the two filters computed from its result
ReaddirOk ==
    /\ pc = "readdir"
    /\ workingDirEntries' = srcDir
    /\ toSymlink' = EntriesToSymlink(srcDir, ignoreDirectories, outBase)
    /\ toCopy' = EntriesToCopy(srcDir, ignoreDirectories, outBase)
    /\ pc' = "ln"
    /\ UNCHANGED <<cvars, variant, cwd, oldCwd, srcDir, otherDir, ignoreDirectories, outBase,
                   mirrorOps, stagingExists, staging, outExists, outDir, out0, trace,
                   afterPass, entriesToCopy, pending, batch, error, firstError, cause, outcome>>

ReaddirFail ==
    /\ pc = "readdir"
    /\ ThrowRaw(FsError("readdir workingDir"))
    /\ UNCHANGED <<cvars, variant, cwd, oldCwd, srcDir, otherDir, ignoreDirectories, outBase,
                   workingDirEntries, toSymlink, toCopy, mirrorOps, stagingExists,
                   staging, outExists, outDir, out0, trace, afterPass, entriesToCopy,
                   pending, batch, outcome>>

\* if (workingDirEntriesToSymlink.length > 0) await execa('ln', ['-s', ...])
LnOk ==
    /\ pc = "ln"
    /\ IF toSymlink = {}
       THEN UNCHANGED <<staging, mirrorOps>>
       ELSE /\ staging' = PlaceEntries(staging, toSymlink, "link")
            /\ mirrorOps' = Append(mirrorOps, [op |-> "ln", args |-> toSymlink])
    /\ pc' = "cp"
    /\ UNCHANGED <<cvars, variant, cwd, oldCwd, srcDir, otherDir, ignoreDirectories, outBase,
                   workingDirEntries, toSymlink, toCopy, stagingExists, outExists,
                   outDir, out0, trace, afterPass, entriesToCopy, pending, batch, error,
                   firstError, cause, outcome>>

\* ln exits non-zero after linking some of its arguments; execa's error is
\* not passed through runLatex
LnFail ==
    /\ pc = "ln"
    /\ toSymlink # {}
    /\ \E placed \in SUBSET toSymlink :
          /\ placed # toSymlink
          /\ staging' = PlaceEntries(staging, placed, "link")
    /\ mirrorOps' = Append(mirrorOps, [op |-> "ln", args |-> toSymlink])
    /\ ThrowRaw(ExecaError("ln", "error"))
    /\ UNCHANGED <<cvars, variant, cwd, oldCwd, srcDir, otherDir, ignoreDirectories, outBase,
                   workingDirEntries, toSymlink, toCopy, stagingExists, outExists,
                   outDir, out0, trace, afterPass, entriesToCopy, pending, batch, outcome>>

\* if (workingDirEntriesToCopy.length > 0) await execa('cp', [...])
CpOk ==
    /\ pc = "cp"
    /\ IF toCopy = {}
       THEN UNCHANGED <<staging, mirrorOps>>
       ELSE /\ staging' = PlaceEntries(staging, toCopy, "copy")
            /\ mirrorOps' = Append(mirrorOps, [op |-> "cp", args |-> toCopy])
    /\ pc' = "clean"
    /\ UNCHANGED <<cvars, variant, cwd, oldCwd, srcDir, otherDir, ignoreDirectories, outBase,
                   workingDirEntries, toSymlink, toCopy, stagingExists, outExists,
                   outDir, out0, trace, afterPass, entriesToCopy, pending, batch, error,
                   firstError, cause, outcome>>

CpFail ==
    /\ pc = "cp"
    /\ toCopy # {}
    /\ \E placed \in SUBSET toCopy :
          /\ placed # toCopy
          /\ staging' = PlaceEntries(staging, placed, "copy")
    /\ mirrorOps' = Append(mirrorOps, [op |-> "cp", args |-> toCopy])
    /\ ThrowRaw(ExecaError("cp", "error"))
    /\ UNCHANGED <<cvars, variant, cwd, oldCwd, srcDir, otherDir, ignoreDirectories, outBase,
                   workingDirEntries, toSymlink, toCopy, stagingExists, outExists,
                   outDir, out0, trace, afterPass, entriesToCopy, pending, batch, outcome>>

(* ---------------------------------------------------- stale tool output *)
\* rm(`pythontex-files-${filename}`) and rm(`${filename}.pytxcode`): both
\* paths are relative.  Variant 1 has called process.chdir(tempDir) just
\* before, variant 2 never changes the working directory.
StaleNames == {PythontexDirName, PytxcodeName}

CleanStaleOk ==
    /\ pc = "clean"
    /\ IF variant = 1
       THEN /\ cwd' = "stage"
            /\ staging' = RemoveEntries(staging, StaleNames)
            /\ UNCHANGED <<srcDir, otherDir>>
            /\ pc' = "engine1"
       ELSE /\ srcDir' = IF cwd = "src" THEN srcDir \ StaleNames ELSE srcDir
            /\ otherDir' = IF cwd = "other" THEN otherDir \ StaleNames ELSE otherDir
            /\ UNCHANGED <<cwd, staging>>
            /\ pc' = "preprocess"
    /\ UNCHANGED <<cvars, variant, oldCwd, ignoreDirectories, outBase, workingDirEntries,
                   toSymlink, toCopy, mirrorOps, stagingExists, outExists, outDir, out0,
                   trace, afterPass, entriesToCopy, pending, batch, error, firstError, cause,
                   outcome>>

CleanStaleFail ==
    /\ pc = "clean"
    /\ cwd' = IF variant = 1 THEN "stage" ELSE cwd
    /\ ThrowRaw(FsError("rm stale"))
    /\ UNCHANGED <<cvars, variant, oldCwd, srcDir, otherDir, ignoreDirectories, outBase,
                   workingDirEntries, toSymlink, toCopy, mirrorOps, stagingExists,
                   staging, outExists, outDir, out0, trace, afterPass, entriesToCopy,
                   pending, batch, outcome>>

\* variant 2, lines 311-314: readFile, compileJsLatex, then writeFile to the
\* relative path `${name}.tex`
PreprocessOk ==
    /\ pc = "preprocess"
    /\ srcDir' = IF cwd = "src" THEN srcDir \cup {filenameWithExt} ELSE srcDir
    /\ otherDir' = IF cwd = "other" THEN otherDir \cup {filenameWithExt} ELSE otherDir
    /\ pc' = "engine1"
    /\ UNCHANGED <<cvars, variant, cwd, oldCwd, ignoreDirectories, outBase, workingDirEntries,
                   toSymlink, toCopy, mirrorOps, stagingExists, staging, outExists,
                   outDir, out0, trace, afterPass, entriesToCopy, pending, batch, error,
                   firstError, cause, outcome>>

PreprocessFail ==
    /\ pc = "preprocess"
    /\ ThrowRaw(FsError("preprocess"))
    /\ UNCHANGED <<cvars, variant, cwd, oldCwd, srcDir, otherDir, ignoreDirectories, outBase,
                   workingDirEntries, toSymlink, toCopy, mirrorOps, stagingExists,
                   staging, outExists, outDir, out0, trace, afterPass, entriesToCopy,
                   pending, batch, outcome>>

(* ------------------------------------------------------------ pass loop *)
EnginePcs == {"engine1", "engine2", "engine3"}

\* the statement after each luaLatex call: the pythontex check, the biber
\* check, the mkdir of the output directory
AfterEngine(p) ==
    IF p = "engine1" THEN "checkPy" ELSE IF p = "engine2" THEN "checkBib" ELSE "mkdirOut"

\* luaLatex: lualatex exits 0
EngineOk ==
    /\ pc \in EnginePcs
    /\ \E arts \in EngineOutputs :
          /\ staging' = WriteFiles(staging, arts)
          /\ srcDir' = srcDir \cup WrittenThrough(staging, arts)
    /\ trace' = Append(trace, "engine")
    /\ afterPass' = Append(afterPass,
                       {n \in DOMAIN staging' : ExistsSync(n, staging', srcDir')})
    /\ pc' = AfterEngine(pc)
    /\ UNCHANGED <<cvars, variant, cwd, oldCwd, otherDir, ignoreDirectories, outBase,
                   workingDirEntries, toSymlink, toCopy, mirrorOps, stagingExists,
                   outExists, outDir, out0, entriesToCopy, pending, batch, error,
                   firstError, cause, outcome>>

\* luaLatex: lualatex exits non-zero, runLatex rethrows as LatexError
EngineFail ==
    /\ pc \in EnginePcs
    /\ \E arts \in EngineFailOutputs :
          /\ staging' = WriteFiles(staging, arts)
          /\ srcDir' = srcDir \cup WrittenThrough(staging, arts)
    /\ trace' = Append(trace, "engine")
    /\ ThrowTool(ExecaError("lualatex", "error"))
    /\ UNCHANGED <<cvars, variant, cwd, oldCwd, otherDir, ignoreDirectories, outBase,
                   workingDirEntries, toSymlink, toCopy, mirrorOps, stagingExists,
                   outExists, outDir, out0, afterPass, entriesToCopy, pending, batch,
                   outcome>>

\* the pythontex condition testing the bibliography-control file
PythontexNeeded_Bcf(stg, src) == ExistsSync(BcfName, stg, src)

\* if (fs.existsSync(`${tempDir}/${filename}.pytxcode`))
PythontexNeeded(stg, src) == ExistsSync(PytxcodeName, stg, src)

CheckPy ==
    /\ pc = "checkPy"
    /\ trace' = Append(trace, "checkPy")
    /\ pc' = IF PythontexNeeded(staging, srcDir) THEN "pythontex" ELSE "checkBib"
    /\ UNCHANGED <<cvars, variant, cwd, oldCwd, srcDir, otherDir, ignoreDirectories, outBase,
                   workingDirEntries, toSymlink, toCopy, mirrorOps, stagingExists,
                   staging, outExists, outDir, out0, afterPass, entriesToCopy, pending,
                   batch, error, firstError, cause, outcome>>

\* a pythontex step that is not followed by an engine pass
PythontexOk_SkipEngine ==
    /\ pc = "pythontex"
    /\ trace' = Append(trace, "pythontex")
    /\ pc' = "checkBib"
    /\ UNCHANGED <<cvars, variant, cwd, oldCwd, srcDir, otherDir, staging, ignoreDirectories,
                   outBase, workingDirEntries, toSymlink, toCopy, mirrorOps,
                   stagingExists, outExists, outDir, out0, afterPass, entriesToCopy,
                   pending, batch, error, firstError, cause, outcome>>

\* runLatex(() => execa('pythontex', [filenameWithExt]))
PythontexOk ==
    /\ pc = "pythontex"
    /\ trace' = Append(trace, "pythontex")
    /\ pc' = "engine2"
    /\ UNCHANGED <<cvars, variant, cwd, oldCwd, srcDir, otherDir, staging, ignoreDirectories, outBase,
                   workingDirEntries, toSymlink, toCopy, mirrorOps, stagingExists,
                   outExists, outDir, out0, afterPass, entriesToCopy, pending, batch,
                   error, firstError, cause, outcome>>

PythontexFail ==
    /\ pc = "pythontex"
    /\ trace' = Append(trace, "pythontex")
    /\ ThrowTool(ExecaError("pythontex", "error"))
    /\ UNCHANGED <<cvars, variant, cwd, oldCwd, srcDir, otherDir, ignoreDirectories, outBase,
                   workingDirEntries, toSymlink, toCopy, mirrorOps, stagingExists,
                   staging, outExists, outDir, out0, afterPass, entriesToCopy, pending,
                   batch, outcome>>

\* if (fs.existsSync(`${tempDir}/${filename}.bcf`))
BiberNeeded(stg, src) == ExistsSync(BcfName, stg, src)

CheckBib ==
    /\ pc = "checkBib"
    /\ trace' = Append(trace, "checkBib")
    /\ pc' = IF BiberNeeded(staging, srcDir) THEN "biber" ELSE "mkdirOut"
    /\ UNCHANGED <<cvars, variant, cwd, oldCwd, srcDir, otherDir, ignoreDirectories, outBase,
                   workingDirEntries, toSymlink, toCopy, mirrorOps, stagingExists,
                   staging, outExists, outDir, out0, afterPass, entriesToCopy, pending,
                   batch, error, firstError, cause, outcome>>

\* runLatex(() => execa('biber', [filename])): exit status 0
BiberOk ==
    /\ pc = "biber"
    /\ trace' = Append(trace, "biber")
    /\ pc' = "engine3"
    /\ UNCHANGED <<cvars, variant, cwd, oldCwd, srcDir, otherDir, staging, ignoreDirectories, outBase,
                   workingDirEntries, toSymlink, toCopy, mirrorOps, stagingExists,
                   outExists, outDir, out0, afterPass, entriesToCopy, pending, batch,
                   error, firstError, cause, outcome>>

\* what the build does when biber exits with a non-zero status: both variants
\* await the subprocess inside runLatex, whose catch rethrows every rejection
BiberExit(status) ==
    ThrowTool(ExecaError("biber", status))

BiberFail ==
    /\ pc = "biber"
    /\ trace' = Append(trace, "biber")
    /\ \E status \in BiberFailStatuses :
          /\ BiberExit(status)
          /\ UNCHANGED <<staging, srcDir>>
    /\ UNCHANGED <<cvars, variant, cwd, oldCwd, otherDir, ignoreDirectories, outBase,
                   workingDirEntries, toSymlink, toCopy, mirrorOps, stagingExists,
                   outExists, outDir, out0, afterPass, entriesToCopy, pending, batch,
                   outcome>>

(* ---------------------------------------------------------- copy batches *)
\* Promise.all(entriesToCopy.map(async (tempFile) => ...)): every callback
\* is started at once; the await resumes when all have fulfilled or as soon
\* as one has rejected, and the others keep running
StartBatch(b, names, force) ==
    /\ pending' = pending \cup {[name |-> n, force |-> force, batch |-> b] : n \in names}
    /\ batch' = b
    /\ pc' = "await"

\* the directory in which a copy looks its entry up: variant 1 passes the
\* bare entry name (relative to process.cwd()), variant 2 passes
\* path.join(tempDir, tempFile)
TaskDir ==
    IF variant = 2 \/ cwd = "stage"
    THEN (IF stagingExists THEN DOMAIN staging ELSE {})
    ELSE DirOf(cwd, srcDir, otherDir, staging)

TaskReadsStaging == variant = 2 \/ cwd = "stage"

\* lstat(...).isSymbolicLink()
TaskIsLink(t) == TaskReadsStaging /\ staging[t.name] = "link"

\* fs.promises.cp(src, path.join(outputDirectory, tempFile), {recursive, force}):
\* an existing destination is overwritten only when force is set
CpInto(out, t, content) ==
    IF t.force \/ t.name \notin DOMAIN out
    THEN [n \in DOMAIN out \cup {t.name} |-> IF n = t.name THEN content ELSE out[n]]
    ELSE out

CopyError(t) == [cls |-> "FsError", msg |-> <<"cp", t.batch, t.name>>]

\* one callback of a batch runs to its end without an error
CopyTaskOk ==
    /\ \E t \in pending :
          /\ t.name \in TaskDir
          /\ pending' = pending \ {t}
          /\ IF TaskIsLink(t)
             THEN UNCHANGED <<outDir, outExists>>
             ELSE /\ outDir' = CpInto(outDir, t, IF TaskReadsStaging THEN "new" ELSE "src")
                  /\ outExists' = TRUE
    /\ UNCHANGED <<cvars, variant, pc, cwd, oldCwd, srcDir, otherDir, ignoreDirectories, outBase,
                   workingDirEntries, toSymlink, toCopy, mirrorOps, stagingExists,
                   staging, out0, trace, afterPass, entriesToCopy, batch, error,
                   firstError, cause, outcome>>

\* one callback rejects (lstat or cp fails); Promise.all rejects if the
\* build is still awaiting that batch
CopyTaskFail ==
    /\ \E t \in pending :
          /\ pending' = pending \ {t}
          /\ IF pc = "await" /\ batch = t.batch
             THEN /\ batch' = "none"
                  /\ IF t.batch = "publish"
                     THEN ThrowRaw(CopyError(t))
                     ELSE ThrowInCatch(CopyError(t))
             ELSE UNCHANGED <<pc, batch, error, firstError, cause>>
    /\ UNCHANGED <<cvars, variant, cwd, oldCwd, srcDir, otherDir, ignoreDirectories, outBase,
                   workingDirEntries, toSymlink, toCopy, mirrorOps, stagingExists,
                   staging, outExists, outDir, out0, trace, afterPass, entriesToCopy,
                   outcome>>

\* every callback of the awaited batch has fulfilled.  After the publish
\* batch variant 1 goes on to the rm of the parent directory and variant 2
\* leaves the try block; after the recovery batch comes `throw error`
AwaitDone ==
    /\ pc = "await"
    /\ \A t \in pending : t.batch # batch
    /\ pc' = IF batch = "publish" /\ variant = 1 THEN "rmParent" ELSE "finally"
    /\ batch' = "none"
    /\ UNCHANGED <<cvars, variant, cwd, oldCwd, srcDir, otherDir, ignoreDirectories, outBase,
                   workingDirEntries, toSymlink, toCopy, mirrorOps, stagingExists,
                   staging, outExists, outDir, out0, trace, afterPass, entriesToCopy,
                   pending, error, firstError, cause, outcome>>

(* ---------------------------------------------------------- publication *)
\* mkdir(outputDirectory, {recursive: true})
MkdirOutOk ==
    /\ pc = "mkdirOut"
    /\ outExists' = TRUE
    /\ pc' = "readdirStage"
    /\ UNCHANGED <<cvars, variant, cwd, oldCwd, srcDir, otherDir, ignoreDirectories, outBase,
                   workingDirEntries, toSymlink, toCopy, mirrorOps, stagingExists,
                   staging, outDir, out0, trace, afterPass, entriesToCopy, pending,
                   batch, error, firstError, cause, outcome>>

MkdirOutFail ==
    /\ pc = "mkdirOut"
    /\ ThrowRaw(FsError("mkdir outputDirectory"))
    /\ UNCHANGED <<cvars, variant, cwd, oldCwd, srcDir, otherDir, ignoreDirectories, outBase,
                   workingDirEntries, toSymlink, toCopy, mirrorOps, stagingExists,
                   staging, outExists, outDir, out0, trace, afterPass, entriesToCopy,
                   pending, batch, outcome>>

\* whether the success path removes the output directory before it copies:
\* variant 1 does (line 133), copyTempFilesToOutdir of variant 2 does not
ClearsOutput(v) == v = 1

\* readdir(tempDir) and the filter; variant 2 starts the copies right away
\* (copyTempFilesToOutdir({force: true}))
ReaddirStageOk ==
    /\ pc = "readdirStage"
    /\ entriesToCopy' = PublishFilter(variant, DOMAIN staging)
    /\ IF ClearsOutput(variant)
       THEN /\ pc' = "rmOut"
            /\ UNCHANGED <<pending, batch>>
       ELSE StartBatch("publish", entriesToCopy', TRUE)
    /\ UNCHANGED <<cvars, variant, cwd, oldCwd, srcDir, otherDir, ignoreDirectories, outBase,
                   workingDirEntries, toSymlink, toCopy, mirrorOps, stagingExists,
                   staging, outExists, outDir, out0, trace, afterPass, error,
                   firstError, cause, outcome>>

ReaddirStageFail ==
    /\ pc = "readdirStage"
    /\ ThrowRaw(FsError("readdir tempDir"))
    /\ UNCHANGED <<cvars, variant, cwd, oldCwd, srcDir, otherDir, ignoreDirectories, outBase,
                   workingDirEntries, toSymlink, toCopy, mirrorOps, stagingExists,
                   staging, outExists, outDir, out0, trace, afterPass, entriesToCopy,
                   pending, batch, outcome>>

\* variant 1, line 133: rm(outputDirectory, {recursive, force}), then the
\* copies are started
RmOutOk ==
    /\ pc = "rmOut"
    /\ outDir' = EmptyDir
    /\ outExists' = FALSE
    /\ StartBatch("publish", entriesToCopy, TRUE)
    /\ UNCHANGED <<cvars, variant, cwd, oldCwd, srcDir, otherDir, ignoreDirectories, outBase,
                   workingDirEntries, toSymlink, toCopy, mirrorOps, stagingExists,
                   staging, out0, trace, afterPass, entriesToCopy, error, firstError, cause,
                   outcome>>

RmOutFail ==
    /\ pc = "rmOut"
    /\ ThrowRaw(FsError("rm outputDirectory"))
    /\ UNCHANGED <<cvars, variant, cwd, oldCwd, srcDir, otherDir, ignoreDirectories, outBase,
                   workingDirEntries, toSymlink, toCopy, mirrorOps, stagingExists,
                   staging, outExists, outDir, out0, trace, afterPass, entriesToCopy,
                   pending, batch, outcome>>

\* variant 1, lines 147-149: rm(tempLatexWorkflowDir) without recursive on
\* the directory that holds tempDir; it rejects and the rejection is dropped
RmParent ==
    /\ pc = "rmParent"
    /\ pc' = "finally"
    /\ UNCHANGED <<cvars, variant, cwd, oldCwd, srcDir, otherDir, ignoreDirectories, outBase,
                   workingDirEntries, toSymlink, toCopy, mirrorOps, stagingExists,
                   staging, outExists, outDir, out0, trace, afterPass, entriesToCopy,
                   pending, batch, error, firstError, cause, outcome>>

(* ------------------------------------------------------- catch / finally *)
\* the catch clause: readdir(tempDir), the filter, then the recovery copies
CatchReaddirOk ==
    /\ pc = "catch"
    /\ stagingExists
    /\ entriesToCopy' = PublishFilter(variant, DOMAIN staging)
    /\ StartBatch("recover", entriesToCopy', RecoverForce(variant))
    /\ UNCHANGED <<cvars, variant, cwd, oldCwd, srcDir, otherDir, ignoreDirectories, outBase,
                   workingDirEntries, toSymlink, toCopy, mirrorOps, stagingExists,
                   staging, outExists, outDir, out0, trace, afterPass, error,
                   firstError, cause, outcome>>

\* readdir(tempDir) rejects in the catch clause (always when tempDir is missing)
CatchReaddirFail ==
    /\ pc = "catch"
    /\ ThrowInCatch(FsError("readdir tempDir in catch"))
    /\ UNCHANGED <<cvars, variant, cwd, oldCwd, srcDir, otherDir, ignoreDirectories, outBase,
                   workingDirEntries, toSymlink, toCopy, mirrorOps, stagingExists,
                   staging, outExists, outDir, out0, trace, afterPass, entriesToCopy,
                   pending, batch, outcome>>

\* what the finally clause does to tempDir: variant 1 only restores the
\* working directory, variant 2 awaits cleanup() of the tmp-promise directory
StagingAfterFinally(v, exists) == IF v = 1 THEN exists ELSE FALSE

\* a finally clause that leaves the working directory where the build put it
CwdAfterFinally_Keep(v, c, old) == c

\* process.chdir(oldCwd) in the finally clause of variant 1; variant 2 never
\* changes the working directory
CwdAfterFinally(v, c, old) == IF v = 1 THEN old ELSE c

Finally ==
    /\ pc = "finally"
    /\ cwd' = CwdAfterFinally(variant, cwd, oldCwd)
    /\ stagingExists' = StagingAfterFinally(variant, stagingExists)
    /\ staging' = IF stagingExists' THEN staging ELSE EmptyDir
    /\ outcome' = IF error = NoError
                  THEN [kind |-> "returned", err |-> NoError]
                  ELSE [kind |-> "thrown", err |-> error]
    /\ pc' = "done"
    /\ UNCHANGED <<cvars, variant, oldCwd, srcDir, otherDir, ignoreDirectories, outBase,
                   workingDirEntries, toSymlink, toCopy, mirrorOps, outExists, outDir,
                   out0, trace, afterPass, entriesToCopy, pending, batch, error,
                   firstError, cause>>

(* ------------------------------------ the steps of two interleaved calls *)
\* Each call is cut at its awaits as above; of every step only what it does
\* to process-wide state is kept: the directories, process.cwd(), and the
\* directory each tool and each relative path is run against.
buildVars == <<variant, pc, cwd, oldCwd, srcDir, otherDir, ignoreDirectories, outBase,
               workingDirEntries, toSymlink, toCopy, mirrorOps, stagingExists, staging,
               outExists, outDir, out0, trace, afterPass, entriesToCopy, pending, batch,
               error, firstError, cause, outcome>>

Op(b, op, dir) == [build |-> b, op |-> op, dir |-> dir]

\* lines 51-59: oldCwd = process.cwd(), tempDir computed (variant 1)
CStart(b) ==
    /\ cPc[b] = "idle"
    /\ IF variant = 1
       THEN /\ cOld' = [cOld EXCEPT ![b] = procCwd]
            /\ cTemp' = [cTemp EXCEPT ![b] = StagePath(cDoc[b])]
            /\ cPc' = [cPc EXCEPT ![b] = "rm"]
       ELSE /\ UNCHANGED <<cOld, cTemp>>
            /\ cPc' = [cPc EXCEPT ![b] = "dir"]
    /\ UNCHANGED <<cDoc, cFresh, procCwd, dirs, cOps, cTmpCount, buildVars>>

\* variant 1, line 62: rm(tempDir, {force, recursive})
CRmStage(b) ==
    /\ cPc[b] = "rm"
    /\ cFresh' = [cFresh EXCEPT ![b] = cTemp[b] \notin DOMAIN dirs]
    /\ dirs' = DirDrop(dirs, cTemp[b])
    /\ cPc' = [cPc EXCEPT ![b] = "mkdir"]
    /\ UNCHANGED <<cDoc, cTemp, cOld, procCwd, cOps, cTmpCount, buildVars>>

\* variant 1, line 63: mkdir(tempDir, {recursive: true}) keeps a directory
\* that exists
CMkdirStage(b) ==
    /\ cPc[b] = "mkdir"
    /\ dirs' = IF cTemp[b] \in DOMAIN dirs THEN dirs ELSE DirPut(dirs, cTemp[b], {})
    /\ cPc' = [cPc EXCEPT ![b] = "mirror"]
    /\ UNCHANGED <<cDoc, cTemp, cOld, cFresh, procCwd, cOps, cTmpCount, buildVars>>

\* variant 2, line 238: dir() makes a directory under a name not handed out before
CDir(b) ==
    /\ cPc[b] = "dir"
    /\ cTmpCount' = cTmpCount + 1
    /\ cTemp' = [cTemp EXCEPT ![b] = TmpPath(cTmpCount')]
    /\ cFresh' = [cFresh EXCEPT ![b] = TmpPath(cTmpCount') \notin DOMAIN dirs]
    /\ dirs' = DirPut(dirs, TmpPath(cTmpCount'), {})
    /\ cPc' = [cPc EXCEPT ![b] = "mirror"]
    /\ UNCHANGED <<cDoc, cOld, procCwd, cOps, buildVars>>

\* lines 67-97: ln -s / cp into tempDir (absolute path); they fail when
\* tempDir is gone
CMirror(b) ==
    /\ cPc[b] = "mirror"
    /\ dirs' = DirAdd(dirs, cTemp[b], b, "mirror")
    /\ cPc' = [cPc EXCEPT ![b] = IF cTemp[b] \in DOMAIN dirs THEN "clean1" ELSE "catch"]
    /\ UNCHANGED <<cDoc, cTemp, cOld, cFresh, procCwd, cOps, cTmpCount, buildVars>>

\* variant 1, lines 100-106: process.chdir(tempDir), then the first relative
\* rm; variant 2, lines 304-307: the first relative rm
CClean1(b) ==
    /\ cPc[b] = "clean1"
    /\ IF variant = 1 /\ cTemp[b] \notin DOMAIN dirs
       THEN /\ cPc' = [cPc EXCEPT ![b] = "catch"]
            /\ UNCHANGED <<procCwd, cOps>>
       ELSE /\ procCwd' = IF variant = 1 THEN cTemp[b] ELSE procCwd
            /\ cOps' = cOps \cup {Op(b, "rm", procCwd')}
            /\ cPc' = [cPc EXCEPT ![b] = "clean2"]
    /\ UNCHANGED <<cDoc, cTemp, cOld, cFresh, dirs, cTmpCount, buildVars>>

\* line 107 / 308: the second relative rm
CClean2(b) ==
    /\ cPc[b] = "clean2"
    /\ cOps' = cOps \cup {Op(b, "rm", procCwd)}
    /\ cPc' = [cPc EXCEPT ![b] = IF variant = 1 THEN "engine" ELSE "write"]
    /\ UNCHANGED <<cDoc, cTemp, cOld, cFresh, procCwd, dirs, cTmpCount, buildVars>>

\* variant 2, lines 313-314: writeFile(`${name}.tex`), a relative path
CWrite(b) ==
    /\ cPc[b] = "write"
    /\ cOps' = cOps \cup {Op(b, "writeFile", procCwd)}
    /\ dirs' = DirAdd(dirs, procCwd, b, "tex")
    /\ cPc' = [cPc EXCEPT ![b] = "engine"]
    /\ UNCHANGED <<cDoc, cTemp, cOld, cFresh, procCwd, cTmpCount, buildVars>>

\* the directory a subprocess of the pass loop runs in: variant 1 gives
\* execa no cwd (lines 26-37, 65, 113, 119), so it inherits process.cwd();
\* variant 2 passes cwd: tempDir (lines 218, 270)
ToolDir(v, b) == IF v = 1 THEN procCwd ELSE cTemp[b]

\* an engine pass (and the pythontex / biber runs, spawned the same way)
CEngine(b) ==
    /\ cPc[b] = "engine"
    /\ cOps' = cOps \cup {Op(b, "lualatex", ToolDir(variant, b))}
    /\ dirs' = DirAdd(dirs, ToolDir(variant, b), b, "artifact")
    /\ \E next \in {"publish", "catch"} : cPc' = [cPc EXCEPT ![b] = next]
    /\ UNCHANGED <<cDoc, cTemp, cOld, cFresh, procCwd, cTmpCount, buildVars>>

\* the directory the copy callbacks look their entry up in: variant 1
\* lstat(tempFile), variant 2 lstat(path.join(tempDir, tempFile))
LstatDir(v, b) == IF v = 1 THEN procCwd ELSE cTemp[b]

\* lines 123-144 / 330-331: the publish batch
CPublish(b) ==
    /\ cPc[b] = "publish"
    /\ cOps' = cOps \cup {Op(b, "lstat", LstatDir(variant, b))}
    /\ cPc' = [cPc EXCEPT ![b] = "finally"]
    /\ UNCHANGED <<cDoc, cTemp, cOld, cFresh, procCwd, dirs, cTmpCount, buildVars>>

\* lines 150-171 / 332-334: the recovery batch
CCatch(b) ==
    /\ cPc[b] = "catch"
    /\ cOps' = cOps \cup {Op(b, "lstat", LstatDir(variant, b))}
    /\ cPc' = [cPc EXCEPT ![b] = "finally"]
    /\ UNCHANGED <<cDoc, cTemp, cOld, cFresh, procCwd, dirs, cTmpCount, buildVars>>

\* lines 172-174: process.chdir(oldCwd); lines 335-337: cleanup()
CFinally(b) ==
    /\ cPc[b] = "finally"
    /\ procCwd' = IF variant = 1 THEN cOld[b] ELSE procCwd
    /\ dirs' = IF variant = 1 THEN dirs ELSE DirDrop(dirs, cTemp[b])
    /\ cPc' = [cPc EXCEPT ![b] = "done"]
    /\ UNCHANGED <<cDoc, cTemp, cOld, cFresh, cOps, cTmpCount, buildVars>>

(* ---------------------------------------------------------------- system *)
Next ==
    \/ AcquireOk \/ AcquireFail \/ MkdirStageOk \/ MkdirStageFail
    \/ ReaddirOk \/ ReaddirFail \/ LnOk \/ LnFail \/ CpOk \/ CpFail
    \/ CleanStaleOk \/ CleanStaleFail \/ PreprocessOk \/ PreprocessFail
    \/ EngineOk \/ EngineFail \/ CheckPy \/ PythontexOk \/ PythontexFail
    \/ CheckBib \/ BiberOk \/ BiberFail
    \/ MkdirOutOk \/ MkdirOutFail \/ ReaddirStageOk \/ ReaddirStageFail
    \/ RmOutOk \/ RmOutFail \/ CopyTaskOk \/ CopyTaskFail \/ AwaitDone
    \/ RmParent \/ CatchReaddirOk \/ CatchReaddirFail \/ Finally

Spec == Init /\ [][Next]_vars

\* the build up to the end of the mirroring stage
MirrorNext ==
    \/ AcquireOk \/ AcquireFail \/ MkdirStageOk \/ MkdirStageFail
    \/ ReaddirOk \/ ReaddirFail \/ LnOk \/ LnFail \/ CpOk \/ CpFail

MirrorSpec == MirrorInit /\ [][MirrorNext]_vars

\* two calls interleaved at their awaits
ConcNext ==
    \E b \in Builds :
        \/ CStart(b) \/ CRmStage(b) \/ CMkdirStage(b) \/ CDir(b) \/ CMirror(b)
        \/ CClean1(b) \/ CClean2(b) \/ CWrite(b) \/ CEngine(b) \/ CPublish(b)
        \/ CCatch(b) \/ CFinally(b)

ConcSpec == ConcInit /\ [][ConcNext]_vars

TypeOK ==
    /\ variant \in {1, 2}
    /\ cwd \in {"src", "other", "stage"}
    /\ batch \in {"none", "publish", "recover"}
    /\ outcome.kind \in {"running", "returned", "thrown"}

(* ================================================================ claims *)
ToolNames == {"lualatex", "pythontex", "biber"}

\* the call failed first because the engine, pythontex or biber exited non-zero
ToolFailed == cause.cls = "ExecaError" /\ cause.msg[1] \in ToolNames

Failed == firstError # NoError

\* C1: once compileLatex has returned or thrown, the staging directory it
\* used no longer exists.
C1_StagingRemoved == pc = "done" => ~stagingExists

\* C2: after a successful build the output directory holds only entries
\* published from this build's staging directory; no entry of an earlier
\* build remains.
C2_OutputFullyReplaced ==
    outcome.kind = "returned" =>
        \A n \in DOMAIN outDir : outDir[n] = "new" /\ n \in entriesToCopy

\* C3: when a build fails after at least one successful engine pass, every
\* entry the output directory held before the build keeps its content.
C3_FailureKeepsOldEntries ==
    (Failed /\ Len(afterPass) >= 1) =>
        \A n \in DOMAIN out0 : n \in DOMAIN outDir /\ outDir[n] = "old"

\* C4: the error compileLatex raises is the first error of the pipeline,
\* whether the recovery copy succeeds or fails.
C4_OriginalErrorRaised ==
    outcome.kind = "thrown" => outcome.err = firstError

\* the pass loop has run to its end and no tool has failed
PassLoopCompleted ==
    /\ \E i \in 1..Len(trace) : trace[i] = "checkBib"
    /\ pc \notin {"biber", "engine3"}
    /\ ~ToolFailed

\* the invocations and checks the markers seen after the engine passes call for
ExpectedTrace ==
    LET py == PytxcodeName \in afterPass[1]
        last == IF py THEN 2 ELSE 1
        bib == last <= Len(afterPass) /\ BcfName \in afterPass[last]
    IN <<"engine", "checkPy">>
       \o (IF py THEN <<"pythontex", "engine">> ELSE <<>>)
       \o <<"checkBib">>
       \o (IF bib THEN <<"biber", "engine">> ELSE <<>>)

\* C5: in a build where no tool fails the invocations are exactly: engine;
\* pythontex and engine iff the marker exists after the first pass; biber
\* and engine iff the .bcf exists after the last pass before the check; the
\* pythontex re-run ends before the biber condition is evaluated.
C5_ToolSequence == PassLoopCompleted => trace = ExpectedTrace

C5_Witness ==
    /\ PassLoopCompleted
    /\ outcome.kind = "returned"
    /\ Len(afterPass) = 3

\* C6: after any step has failed no engine or tool is started, nothing is
\* mirrored again, and the build only runs the recovery copy and the finally
\* clause.
C6_NoWorkAfterFailure ==
    [][Failed =>
          /\ trace' = trace
          /\ mirrorOps' = mirrorOps
          /\ pc' \in {"catch", "await", "finally", "done"}
          /\ (pc' = "catch" => pc = "catch")
          /\ (pc' = "await" => batch' = "recover")]_vars

C6_Witness ==
    /\ outcome.kind = "thrown"
    /\ cause = ExecaError("pythontex", "error")
    /\ outcome.err = firstError

\* C7: a non-zero exit of the engine, pythontex or biber reaches the caller
\* as a LatexError with the tool error's message; a failed filesystem
\* operation reaches the caller as the original error.
C7_ErrorTaxonomy ==
    outcome.kind = "thrown" =>
        outcome.err = (IF ToolFailed THEN LatexError(cause.msg) ELSE cause)

\* C8: the exit status of biber that only says no citations were found does
\* not make the build fail.
C8_NoCitationsNotFatal ==
    ~(Failed /\ cause = ExecaError("biber", "nocite"))

NotExcluded(e) == e \notin ignoreDirectories /\ e # outBase

\* the mirror invocations that were given entry e
OpsWith(e) == {i \in 1..Len(mirrorOps) : e \in mirrorOps[i].args}

\* C9: every source entry that is not excluded is given to cp and never to
\* ln when its extension is '.tex', to ln and never to cp otherwise; no
\* entry is in both sets; each is handled exactly once.
C9_LinkOrCopyOnce ==
    /\ toSymlink \cap toCopy = {}
    /\ \A e \in workingDirEntries :
          NotExcluded(e) =>
             /\ e \in toCopy <=> PathExt(e) = TexExt
             /\ e \in toSymlink <=> PathExt(e) # TexExt
             /\ \A i \in OpsWith(e) :
                   mirrorOps[i].op = (IF PathExt(e) = TexExt THEN "cp" ELSE "ln")
             /\ Cardinality(OpsWith(e)) <= 1
             /\ pc = "clean" =>
                   /\ Cardinality(OpsWith(e)) = 1
                   /\ staging[e] = (IF PathExt(e) = TexExt THEN "copy" ELSE "link")

C9_Witness ==
    /\ pc = "clean"
    /\ Len(mirrorOps) = 2
    /\ DotTexName \in toSymlink
    /\ filenameWithExt \in toCopy

\* C10: the entry named like the output directory is in neither the link
\* set nor the copy set and is never given to ln or cp, whatever its
\* extension.
C10_OutputNameNeverMirrored ==
    /\ outBase \notin toSymlink \cup toCopy
    /\ \A i \in 1..Len(mirrorOps) : outBase \notin mirrorOps[i].args

\* the entries whose content in the output directory changes in a step
Written == {n \in DOMAIN outDir' : n \notin DOMAIN outDir \/ outDir'[n] # outDir[n]}

\* an awaited batch ends with every callback fulfilled
BatchFulfilled == pc = "await" /\ pc' # "await" /\ error' = error /\ pc' # "catch"

\* what a step may do to the output directory: it writes only regular
\* non-document entries of tempDir, and a fulfilled batch has copied them all
PublishStepOk ==
    /\ \A n \in Written :
          /\ outDir'[n] = "new"
          /\ n \in DOMAIN staging
          /\ staging[n] # "link"
          /\ n \in PublishFilter(variant, {n})
    /\ BatchFulfilled =>
          \A n \in entriesToCopy : staging[n] # "link" => n \in DOMAIN outDir'

\* C11: publication (success path and failure path) never copies into the
\* output directory a staging entry that is a symbolic link or a document
\* source ('.tex', and '.jtex' in variant 2); every other staging entry
\* present at publication time is copied.
C11_PublishedEntries == [][PublishStepOk]_vars

\* the first engine invocation of the build exited non-zero
FirstEngineFailed == trace = <<"engine">> /\ cause = ExecaError("lualatex", "error")

\* C13: if the first engine invocation fails and the output directory held
\* no entries before the build, then after compileLatex throws the output
\* directory holds no entries and the error thrown is the engine's tool error.
C13_FirstPassFailure ==
    (outcome.kind = "thrown" /\ FirstEngineFailed /\ DOMAIN out0 = {}) =>
        /\ DOMAIN outDir = {}
        /\ outcome.err = LatexError(cause.msg)

AuxTools == {"pythontex", "biber"}

\* the invocation recorded at position i of the trace exited non-zero
ExitedNonZero(i) == i = Len(trace) /\ ToolFailed /\ cause.msg[1] = trace[i]

\* position i of the trace is followed by exactly one engine invocation
EngineFollows(i) ==
    /\ i < Len(trace)
    /\ trace[i + 1] = "engine"
    /\ (i + 2 <= Len(trace) => trace[i + 2] # "engine")

\* C14 as stated: every invocation of pythontex and of biber is immediately
\* followed by exactly one engine invocation.
C14_EngineAfterEveryTool ==
    pc = "done" =>
        \A i \in 1..Len(trace) : trace[i] \in AuxTools => EngineFollows(i)

\* C14 as amended: every invocation of pythontex and of biber that exits
\* with status zero is immediately followed by exactly one engine
\* invocation, with no other tool invocation and no publication in between.
C14_EngineAfterZeroExit ==
    \A i \in 1..Len(trace) :
        (trace[i] \in AuxTools /\ ~ExitedNonZero(i)) =>
            IF i = Len(trace) THEN pc \in {"engine2", "engine3"} ELSE EngineFollows(i)

C14_Witness ==
    /\ outcome.kind = "returned"
    /\ \E i, j \in 1..Len(trace) : trace[i] = "pythontex" /\ trace[j] = "biber"

\* C15: when the first engine pass starts, tempDir holds neither the
\* pythontex cache directory nor the marker file of the document.
C15_NoStaleToolOutput ==
    pc = "engine1" => DOMAIN staging \cap StaleNames = {}

\* C16: the build goes on to a later step only after every copy of the
\* batch has completed, also when a member of the batch failed.
C16_BatchAwaited ==
    \A t \in pending : pc = "await" /\ batch = t.batch

\* C18: in variant 1, when a call has returned or thrown, the process
\* working directory is the one of the moment the call started (oldCwd is
\* read first in the call and never assigned again).
C18_CwdRestored ==
    (variant = 1 /\ pc = "done") => cwd = oldCwd

C18_Witness ==
    /\ variant = 1
    /\ pc = "done"
    /\ outcome.kind = "thrown"
    /\ trace # <<>>

ToolPcs == EnginePcs \cup {"pythontex", "biber", "ln", "cp"}

\* C19: the removals and writes compileLatex performs itself leave the
\* source tree and the caller's working directory unchanged.
C19_OwnWritesStayInside ==
    [][pc \notin ToolPcs => (srcDir' = srcDir /\ otherDir' = otherDir)]_vars

\* the call holds a staging directory
InFlight(b) == cPc[b] \notin {"idle", "rm", "dir", "done"}

\* C12: each call acquires a staging directory that did not exist before
\* and is empty, so two calls in flight never use the same staging
\* directory and neither writes entries into the other's.
C12_StagingExclusive ==
    \A a \in Builds :
        InFlight(a) =>
            /\ cFresh[a]
            /\ \A b \in Builds \ {a} : InFlight(b) => cTemp[a] # cTemp[b]
            /\ cTemp[a] \in DOMAIN dirs => \A e \in dirs[cTemp[a]] : e.by = a

\* C17: two interleaved builds of different documents run every tool and
\* every relative-path file operation against their own staging directory.
C17_OwnStagingOnly ==
    cDoc[1] # cDoc[2] => \A o \in cOps : o.dir = cTemp[o.build]

====
